---- MODULE Spec2Model ----
(***************************************************************************)
(* Model of SensorDataProcessor (src/src/WC_Vars_PSIV.py): the registry    *)
(* of per-depth time series (depth_arrays), the interpolation settings and *)
(* perform_interpolation, which builds one depth x time grid per variable. *)
(*                                                                         *)
(* Numbers.  Depths, depth_resolution and max_depth are integers in one    *)
(* common depth unit.  Readings and grid cells are exact rationals         *)
(* <<numerator, denominator>> in lowest terms with denominator > 0; the    *)
(* missing marker (NaN) is <<0, 0>>.  Floating-point rounding is not       *)
(* modelled: two cells are equal here iff they are equal as rationals.     *)
(***************************************************************************)
EXTENDS Integers, Sequences, FiniteSets, TLC

VARIABLES
    input_files,            \* the selected files, in selection order
    processed_dfs,          \* loaded frames: sequence (dict order) of [file, index, cols]
    sensor_depths,          \* function: loaded file -> depth
    available_vars,         \* the "available variables" listbox
    selected_vars,          \* the "selected variables" listbox
    editors,                \* open depth editors: each the old depths it shows
    current_figure,         \* the variable of the generated figure ("" when none)
    depth_arrays,           \* registry: sequence (dict order) of [depth, index, cols]
    depth_resolution,       \* tk.DoubleVar
    max_depth,              \* tk.DoubleVar
    fill_values,            \* tk.BooleanVar
    interp_var_checkboxes,  \* sequence (dict order) of [name, checked]
    interpolated_arrays,    \* function: variable -> [data, depths, times]
    viz_variable,           \* variable selected for plotting ("" when none)
    plot_title,             \* the variable the plot title names ("" when none)
    status_var,             \* status bar text
    notebook,               \* index of the selected tab
    messages                \* titles of the dialogs shown by the last operation

\* the state of the import, processing, editing and plotting stages
stage_vars == <<input_files, processed_dfs, sensor_depths, available_vars,
                selected_vars, editors, current_figure>>

vars == <<stage_vars, depth_arrays, depth_resolution, max_depth, fill_values,
          interp_var_checkboxes, interpolated_arrays, viz_variable,
          plot_title, status_var, notebook, messages>>

(***************************************************************************)
(* Bounds of the explored inputs.                                          *)
(***************************************************************************)
MaxKey == 3        \* sensor depth keys are 0..MaxKey
MaxDepth == 3      \* the largest max_depth setting
MaxVal == 3        \* readings are 0 or MaxVal (or missing)

(***************************************************************************)
(* Sequence helpers.                                                       *)
(***************************************************************************)
Range(s) == {s[i] : i \in DOMAIN s}

Last(s) == s[Len(s)]

Contains(s, x) == \E i \in DOMAIN s : s[i] = x

PositionOf(s, x) == CHOOSE i \in DOMAIN s : s[i] = x

EmptyMap == [x \in {} |-> 0]

(***************************************************************************)
(* Exact arithmetic on cells.                                              *)
(***************************************************************************)
Abs(n) == IF n < 0 THEN -n ELSE n

RECURSIVE Gcd(_, _)
Gcd(a, b) == IF b = 0 THEN a ELSE Gcd(b, a % b)

NaN == <<0, 0>>

isnan(x) == x[2] = 0

\* n/d in lowest terms, d # 0
Rat(n, d) ==
    LET g == Gcd(Abs(n), Abs(d))
        s == IF d < 0 THEN -1 ELSE 1
    IN <<(s * n) \div g, (s * d) \div g>>

Num(v) == Rat(v, 1)

RAdd(x, y) == IF isnan(x) \/ isnan(y) THEN NaN
              ELSE Rat(x[1] * y[2] + y[1] * x[2], x[2] * y[2])

RSub(x, y) == IF isnan(x) \/ isnan(y) THEN NaN
              ELSE Rat(x[1] * y[2] - y[1] * x[2], x[2] * y[2])

RMul(x, y) == IF isnan(x) \/ isnan(y) THEN NaN
              ELSE Rat(x[1] * y[1], x[2] * y[2])

(***************************************************************************)
(* Time-axis reconciliation (perform_interpolation, "Get unique time       *)
(* index").  A time index is a sequence of timestamps.                     *)
(***************************************************************************)
\* time_indices: one index per registry entry, in dict order
TimeIndices(reg) == [i \in DOMAIN reg |-> reg[i].index]

\* all(idx.equals(time_indices[0]) for idx in time_indices)
AllEqual(time_indices) ==
    \A i \in DOMAIN time_indices : time_indices[i] = time_indices[1]

\* IndexIntersection keeping the members of both indexes, a's first
IndexIntersectionAppends(a, b) == a \o b

\* Index.intersection: the members of a that are in b, in a's order
IndexIntersection(a, b) == SelectSeq(a, LAMBDA x : Contains(b, x))

\* time_index = time_indices[0]; for idx in time_indices[1:]: intersection
RECURSIVE IntersectAll(_, _)
IntersectAll(time_index, rest) ==
    IF rest = <<>> THEN time_index
    ELSE IntersectAll(IndexIntersection(time_index, Head(rest)), Tail(rest))

\* the "No Common Times" warning is shown
NoCommonTimes(reg) ==
    LET time_indices == TimeIndices(reg)
    IN /\ ~AllEqual(time_indices)
       /\ Len(IntersectAll(time_indices[1], Tail(time_indices))) = 0

\* CommonTimeIndex without the reconciliation: always the first index
CommonTimeIndexFirstOnly(reg) == TimeIndices(reg)[1]

\* the time index used for every grid of the run (reg is not empty)
CommonTimeIndex(reg) ==
    LET time_indices == TimeIndices(reg)
    IN IF AllEqual(time_indices) THEN time_indices[1]
       ELSE IF NoCommonTimes(reg) THEN time_indices[1]
       ELSE IntersectAll(time_indices[1], Tail(time_indices))

(***************************************************************************)
(* Depth axis: np.arange(0, max_depth + depth_res, depth_res).             *)
(***************************************************************************)
\* ArangeLen rounding down: the stop value never overshot
ArangeLenFloor(stop, step) ==
    IF step > 0
    THEN (IF stop <= 0 THEN 0 ELSE stop \div step)
    ELSE (IF stop >= 0 THEN 0 ELSE (-stop) \div (-step))

\* number of points of np.arange(0, stop, step), step # 0
ArangeLen(stop, step) ==
    IF step > 0
    THEN (IF stop <= 0 THEN 0 ELSE (stop + step - 1) \div step)
    ELSE (IF stop >= 0 THEN 0 ELSE ((-stop) + (-step) - 1) \div (-step))

\* np.arange raises when the step is zero
ArangeRaises(depth_res) == depth_res = 0

DepthPoints(depth_res, maxd) ==
    [i \in 1..ArangeLen(maxd + depth_res, depth_res) |-> (i - 1) * depth_res]

\* AlignSeries reindexing by position instead of by timestamp
AlignSeriesByPosition(df, var, time_index) ==
    IF \A i \in DOMAIN time_index : Contains(df.index, time_index[i])
    THEN [i \in DOMAIN time_index |->
            df.cols[var][PositionOf(df.index, time_index[i])]]
    ELSE [i \in DOMAIN time_index |->
            IF i \in DOMAIN df.index THEN df.cols[var][i] ELSE NaN]

(***************************************************************************)
(* Alignment of one sensor's series to the common time index.              *)
(***************************************************************************)
\* df.loc[time_index, var].values / df.reindex(time_index)[var].values
AlignSeries(df, var, time_index) ==
    IF \A i \in DOMAIN time_index : Contains(df.index, time_index[i])
    THEN [i \in DOMAIN time_index |->
            df.cols[var][PositionOf(df.index, time_index[i])]]
    ELSE [i \in DOMAIN time_index |->
            IF Contains(df.index, time_index[i])
            THEN df.cols[var][PositionOf(df.index, time_index[i])]
            ELSE NaN]

\* VarData reading, for a sensor that has the variable, one fixed column of
\* the sensor whatever the variable asked for
VarDataFirstColumn(reg, var, time_index) ==
    LET having == SelectSeq(reg, LAMBDA df : var \in DOMAIN df.cols)
    IN [i \in DOMAIN having |->
          [depth |-> having[i].depth,
           data  |-> AlignSeries(having[i],
                                 CHOOSE c \in DOMAIN having[i].cols : TRUE,
                                 time_index)]]

\* VarData counting a sensor without the variable as reading zero at
\* every timestamp
VarDataZeroForMissing(reg, var, time_index) ==
    [i \in DOMAIN reg |->
        [depth |-> reg[i].depth,
         data  |-> IF var \in DOMAIN reg[i].cols
                   THEN AlignSeries(reg[i], var, time_index)
                   ELSE [j \in DOMAIN time_index |-> Num(0)]]]

\* var_data: [depth, data] of every sensor that has the variable, dict order
VarData(reg, var, time_index) ==
    LET having == SelectSeq(reg, LAMBDA df : var \in DOMAIN df.cols)
    IN [i \in DOMAIN having |->
          [depth |-> having[i].depth,
           data  |-> AlignSeries(having[i], var, time_index)]]

\* the depths / values lists collected at t_idx (1-based), in var_data order
ValidReadings(var_data, t_idx) ==
    LET ok == SelectSeq(var_data, LAMBDA e :
                  t_idx <= Len(e.data) /\ ~isnan(e.data[t_idx]))
    IN [i \in DOMAIN ok |-> [depth |-> ok[i].depth, value |-> ok[i].data[t_idx]]]

(***************************************************************************)
(* One time column of the grid.                                            *)
(***************************************************************************)
\* insertion of r into a depth-sorted sequence
RECURSIVE InsertByDepth(_, _)
InsertByDepth(r, sorted) ==
    IF sorted = <<>> THEN <<r>>
    ELSE IF r.depth < Head(sorted).depth THEN <<r>> \o sorted
    ELSE <<Head(sorted)>> \o InsertByDepth(r, Tail(sorted))

\* depths_sorted / values_sorted: the readings reordered by np.argsort(depths)
RECURSIVE SortByDepth(_)
SortByDepth(readings) ==
    IF readings = <<>> THEN <<>>
    ELSE InsertByDepth(Head(readings), SortByDepth(Tail(readings)))

\* np.searchsorted(depths_sorted, depth): 0-based insertion point, side left
SearchSorted(sorted, depth) ==
    Cardinality({i \in DOMAIN sorted : sorted[i].depth < depth})

\* LinearBlend with the two weights exchanged
LinearBlendSwapped(below, above, depth) ==
    LET weight_above == Rat(depth - below.depth, above.depth - below.depth)
        weight_below == RSub(Num(1), weight_above)
    IN RAdd(RMul(weight_above, below.value), RMul(weight_below, above.value))

\* weight_below * v_below + weight_above * v_above
LinearBlend(below, above, depth) ==
    LET weight_above == Rat(depth - below.depth, above.depth - below.depth)
        weight_below == RSub(Num(1), weight_above)
    IN RAdd(RMul(weight_below, below.value), RMul(weight_above, above.value))

\* InterpCell taking the value one position early at an exact sensor depth
InterpCellOffByOne(sorted, depth) ==
    LET n == Len(sorted)
        idx_above == SearchSorted(sorted, depth)
    IN IF ~(sorted[1].depth <= depth /\ depth <= sorted[n].depth) THEN NaN
       ELSE IF idx_above = 0 THEN sorted[1].value
       ELSE IF idx_above = n THEN sorted[n].value
       ELSE IF depth = sorted[idx_above + 1].depth THEN sorted[idx_above].value
       ELSE LinearBlend(sorted[idx_above], sorted[idx_above + 1], depth)

\* the cell for one depth point when there are at least two readings
InterpCell(sorted, depth) ==
    LET n == Len(sorted)
        idx_above == SearchSorted(sorted, depth)
    IN IF ~(sorted[1].depth <= depth /\ depth <= sorted[n].depth) THEN NaN
       ELSE IF idx_above = 0 THEN sorted[1].value
       ELSE IF idx_above = n THEN sorted[n].value
       ELSE IF depth = sorted[idx_above + 1].depth THEN sorted[idx_above + 1].value
       ELSE LinearBlend(sorted[idx_above], sorted[idx_above + 1], depth)

\* InterpColumn without the single-reading branch
InterpColumnNeedsTwo(readings, depth_points) ==
    IF Len(readings) >= 2
    THEN [d \in DOMAIN depth_points |->
            InterpCell(SortByDepth(readings), depth_points[d])]
    ELSE [d \in DOMAIN depth_points |-> NaN]

\* InterpColumn over an array initialised with zeros instead of NaN
InterpColumnZeroInit(readings, depth_points) ==
    IF Len(readings) >= 2
    THEN [d \in DOMAIN depth_points |->
            LET cell == InterpCell(SortByDepth(readings), depth_points[d])
            IN IF isnan(cell) THEN Num(0) ELSE cell]
    ELSE IF Len(readings) = 1
    THEN [d \in DOMAIN depth_points |-> readings[1].value]
    ELSE [d \in DOMAIN depth_points |-> Num(0)]

\* var_array[:, t_idx] after the interpolation loop body
InterpColumn(readings, depth_points) ==
    IF Len(readings) >= 2
    THEN [d \in DOMAIN depth_points |->
            InterpCell(SortByDepth(readings), depth_points[d])]
    ELSE IF Len(readings) = 1
    THEN [d \in DOMAIN depth_points |-> readings[1].value]
    ELSE [d \in DOMAIN depth_points |-> NaN]

\* np.where(~np.isnan(var_array[:, t_idx]))[0]
ValidDepthIndices(column) == {d \in DOMAIN column : ~isnan(column[d])}

SetMin(S) == CHOOSE x \in S : \A y \in S : x <= y

SetMax(S) == CHOOSE x \in S : \A y \in S : x >= y

\* FillColumn with the two ends exchanged: the deepest valid value above
\* the range, the shallowest below it
FillColumnEndsSwapped(column) ==
    LET valid_depth_indices == ValidDepthIndices(column)
    IN IF valid_depth_indices = {} THEN column
       ELSE LET min_valid_idx == SetMin(valid_depth_indices)
                max_valid_idx == SetMax(valid_depth_indices)
            IN [d \in DOMAIN column |->
                  IF d < min_valid_idx THEN column[max_valid_idx]
                  ELSE IF d > max_valid_idx THEN column[min_valid_idx]
                  ELSE column[d]]

\* one column of the "Fill values above/below" pass
FillColumn(column) ==
    LET valid_depth_indices == ValidDepthIndices(column)
    IN IF valid_depth_indices = {} THEN column
       ELSE LET min_valid_idx == SetMin(valid_depth_indices)
                max_valid_idx == SetMax(valid_depth_indices)
            IN [d \in DOMAIN column |->
                  IF d < min_valid_idx THEN column[min_valid_idx]
                  ELSE IF d > max_valid_idx THEN column[max_valid_idx]
                  ELSE column[d]]

(***************************************************************************)
(* The grid of one variable.                                               *)
(***************************************************************************)
\* the columns after the loop over t_idx, before the fill pass
InterpColumns(var_data, time_index, depth_points) ==
    [t \in DOMAIN time_index |->
        InterpColumn(ValidReadings(var_data, t), depth_points)]

\* `if fill_values and depths` reads the depths list left by the LAST
\* iteration of the loop over t_idx; with an empty time index the name was
\* never bound and reading it raises
FillRaises(fill, time_index) == fill /\ Len(time_index) = 0

\* FillGuard that ignores the fill flag
FillGuardIgnoresFlag(fill, var_data, time_index) ==
    /\ Len(time_index) > 0
    /\ Len(ValidReadings(var_data, Len(time_index))) > 0

\* the guard of the fill pass (when it does not raise)
FillGuard(fill, var_data, time_index) ==
    /\ fill
    /\ Len(time_index) > 0
    /\ Len(ValidReadings(var_data, Len(time_index))) > 0

\* the columns of the stored grid
FinalColumns(var_data, time_index, depth_points, fill) ==
    LET columns == InterpColumns(var_data, time_index, depth_points)
    IN IF FillGuard(fill, var_data, time_index)
       THEN [t \in DOMAIN columns |-> FillColumn(columns[t])]
       ELSE columns

\* VarArray left time-major: indexed [t_idx][d_idx]
VarArrayTimeMajor(columns, depth_points) == columns

\* var_array, indexed [d_idx][t_idx]
VarArray(columns, depth_points) ==
    [d \in DOMAIN depth_points |-> [t \in DOMAIN columns |-> columns[t][d]]]

\* the entry stored in interpolated_arrays[var]
GridEntry(var_data, time_index, depth_points, fill) ==
    [data   |-> VarArray(FinalColumns(var_data, time_index, depth_points, fill),
                         depth_points),
     depths |-> depth_points,
     times  |-> time_index]

(***************************************************************************)
(* perform_interpolation.                                                  *)
(***************************************************************************)
\* variables_to_interpolate: the checked names, in checkbox order
VariablesToInterpolate(checkboxes) ==
    LET on == SelectSeq(checkboxes, LAMBDA c : c.checked)
    IN [i \in DOMAIN on |-> on[i].name]

\* the loop over variables_to_interpolate: acc is [arrays, messages, failed]
RECURSIVE InterpolateVars(_, _, _, _, _, _)
InterpolateVars(vs, reg, time_index, depth_points, fill, acc) ==
    IF vs = <<>> THEN acc
    ELSE LET var == Head(vs)
             var_data == VarData(reg, var, time_index)
         IN IF var_data = <<>>
            THEN InterpolateVars(Tail(vs), reg, time_index, depth_points, fill,
                     [acc EXCEPT !.messages = @ \cup {"Missing Variable"}])
            ELSE IF FillRaises(fill, time_index)
            THEN [acc EXCEPT !.messages = @ \cup {"Interpolation Error"},
                             !.failed = TRUE]
            ELSE InterpolateVars(Tail(vs), reg, time_index, depth_points, fill,
                     [acc EXCEPT !.arrays = (var :> GridEntry(var_data, time_index,
                                                        depth_points, fill)) @@ @])

\* StartArrays keeping the grids of the previous run
StartArraysKept == interpolated_arrays

\* self.interpolated_arrays = {}: the dict a run starts to fill
StartArrays == EmptyMap

\* the body of the try block, from `self.interpolated_arrays = {}` on:
\* [arrays, messages, failed]
RunInterpolation(reg, depth_res, maxd, fill, vs) ==
    LET warn == IF NoCommonTimes(reg) THEN {"No Common Times"} ELSE {}
    IN IF ArangeRaises(depth_res)
       THEN [arrays |-> StartArrays, messages |-> warn \cup {"Interpolation Error"},
             failed |-> TRUE]
       ELSE InterpolateVars(vs, reg, CommonTimeIndex(reg),
                            DepthPoints(depth_res, maxd), fill,
                            [arrays |-> StartArrays, messages |-> warn, failed |-> FALSE])

\* update_visualization_variables: the first key of interpolated_arrays
FirstStored(vs, arrays) ==
    LET stored == SelectSeq(vs, LAMBDA v : v \in DOMAIN arrays)
    IN stored[1]

perform_interpolation ==
    LET vs == VariablesToInterpolate(interp_var_checkboxes)
    IN IF depth_arrays = <<>>
       THEN /\ messages' = {"No Data"}
            /\ UNCHANGED <<stage_vars, depth_arrays, depth_resolution, max_depth, fill_values,
                           interp_var_checkboxes, interpolated_arrays,
                           viz_variable, plot_title, status_var, notebook>>
       ELSE IF vs = <<>>
       THEN /\ messages' = {"No Variables"}
            /\ UNCHANGED <<stage_vars, depth_arrays, depth_resolution, max_depth, fill_values,
                           interp_var_checkboxes, interpolated_arrays,
                           viz_variable, plot_title, status_var, notebook>>
       ELSE LET r == RunInterpolation(depth_arrays, depth_resolution, max_depth,
                                      fill_values, vs)
            IN /\ interpolated_arrays' = r.arrays
               /\ messages' = r.messages
               /\ IF r.failed
                  THEN UNCHANGED <<viz_variable, plot_title, status_var, notebook>>
                  ELSE /\ viz_variable' = IF DOMAIN r.arrays = {} THEN viz_variable
                                          ELSE FirstStored(vs, r.arrays)
                       /\ plot_title' = IF DOMAIN r.arrays = {} THEN plot_title
                                        ELSE FirstStored(vs, r.arrays)
                       /\ status_var' = <<"Interpolated", Len(vs)>>
                       /\ notebook' = 3
               /\ UNCHANGED <<stage_vars, depth_arrays, depth_resolution, max_depth,
                              fill_values, interp_var_checkboxes>>

(***************************************************************************)
(* The settings of the interpolation tab, edited by the user.              *)
(***************************************************************************)
\* the "Depth resolution" entry
SetDepthResolution(value) ==
    /\ depth_resolution' = value
    /\ UNCHANGED <<stage_vars, depth_arrays, max_depth, fill_values, interp_var_checkboxes,
                   interpolated_arrays, viz_variable, plot_title, status_var,
                   notebook, messages>>

\* the "Maximum depth" entry
SetMaxDepth(value) ==
    /\ max_depth' = value
    /\ UNCHANGED <<stage_vars, depth_arrays, depth_resolution, fill_values,
                   interp_var_checkboxes, interpolated_arrays, viz_variable,
                   plot_title, status_var, notebook, messages>>

\* the "Fill values above shallowest/below deepest sensor" checkbutton
ToggleFillValues ==
    /\ fill_values' = ~fill_values
    /\ UNCHANGED <<stage_vars, depth_arrays, depth_resolution, max_depth,
                   interp_var_checkboxes, interpolated_arrays, viz_variable,
                   plot_title, status_var, notebook, messages>>

(***************************************************************************)
(* Explored inputs.  The program starts with an empty registry; the runs   *)
(* below start from the state process_data leaves: a registry, the         *)
(* interpolation settings, one checkbox per column, no stored grid.        *)
(***************************************************************************)
Variable == "temp"

\* timestamps of the grid scenarios
Times == {1, 2}

\* timestamps of the time-axis scenarios
AxisTimes == {1, 2, 3}

DepthKeys == 0..MaxKey

Vals == {0, MaxVal}

Cells == {NaN} \cup {Num(v) : v \in Vals}

\* the strictly increasing sequence of the members of a set of integers
RECURSIVE Ascending(_)
Ascending(S) ==
    IF S = {} THEN <<>>
    ELSE LET m == SetMin(S) IN <<m>> \o Ascending(S \ {m})

Reverse(s) == [i \in DOMAIN s |-> s[Len(s) + 1 - i]]

\* sets of one to three depth keys
KeySets == {S \in SUBSET DepthKeys : Cardinality(S) \in 1..3}

\* one sensor's frame: the variable's column over the given index
Frame(depth, index, column) ==
    [depth |-> depth, index |-> index, cols |-> (Variable :> column)]

\* grid scenarios: one to three sensors, registered shallowest first, all
\* with the index Times, every reading 0, MaxVal or missing
GridRegistries ==
    UNION {{[i \in DOMAIN ks |-> Frame(ks[i], Ascending(Times), c[i])] :
               c \in [DOMAIN ks -> [Times -> Cells]]} :
           ks \in {Ascending(S) : S \in KeySets}}

\* the reading of the sensor at depth key d at timestamp ts in the
\* time-axis scenarios
AxisReading(d, ts) == Num((d + ts) % (MaxVal + 1))

\* time-axis scenarios: one to three sensors registered shallowest first or
\* deepest first, each with its own index (any subset of AxisTimes,
\* ascending) and a reading at each of its timestamps
AxisRegistries ==
    UNION {{[i \in DOMAIN ks |->
                Frame(ks[i], Ascending(a[i]),
                      [j \in 1..Cardinality(a[i]) |->
                          AxisReading(ks[i], Ascending(a[i])[j])])] :
               a \in [DOMAIN ks -> SUBSET AxisTimes]} :
           ks \in {Ascending(S) : S \in KeySets}
                  \cup {Reverse(Ascending(S)) : S \in KeySets}}

\* the state process_data leaves, but for the interpolation checkboxes
InitStages(registries, resolutions, maxdepths) ==
    /\ depth_arrays \in registries
    /\ input_files = [i \in DOMAIN depth_arrays |-> i]
    /\ processed_dfs = [i \in DOMAIN depth_arrays |->
                           [file |-> i, index |-> depth_arrays[i].index,
                            cols |-> depth_arrays[i].cols]]
    /\ sensor_depths = [i \in DOMAIN depth_arrays |-> depth_arrays[i].depth]
    /\ available_vars = <<Variable>>
    /\ selected_vars = <<Variable>>
    /\ editors = <<>>
    /\ current_figure = ""
    /\ depth_resolution \in resolutions
    /\ max_depth \in maxdepths
    /\ fill_values \in BOOLEAN
    /\ interpolated_arrays = EmptyMap
    /\ viz_variable = ""
    /\ plot_title = ""
    /\ status_var = <<"Processed", Len(depth_arrays)>>
    /\ notebook = 2
    /\ messages = {}

\* the state process_data leaves over frames holding the one variable
InitWith(registries, resolutions, maxdepths) ==
    /\ InitStages(registries, resolutions, maxdepths)
    /\ interp_var_checkboxes = <<[name |-> Variable, checked |-> TRUE]>>

\* grid scenarios under valid settings
Init == InitWith(GridRegistries, {1, 2}, {1, MaxDepth})

Next == perform_interpolation

Spec == Init /\ [][Next]_vars

\* time-axis scenarios under one valid setting
InitAxes == InitWith(AxisRegistries, {1}, {MaxDepth})

SpecAxes == InitAxes /\ [][Next]_vars

\* settings scenarios: two sensors reading 0 (shallower) and MaxVal (deeper)
\* at every timestamp of Times
ConfigRegistries ==
    {[i \in 1..2 |-> Frame(Ascending(S)[i], Ascending(Times),
                           [t \in Times |-> Num((i - 1) * MaxVal)])] :
        S \in {K \in KeySets : Cardinality(K) = 2}}

\* depth_resolution entries: negative, zero, positive
ConfigResolutions == (-1)..2

\* max_depth entries: negative, zero, positive
ConfigMaxDepths == (-1)..MaxDepth

InitConfig == InitWith(ConfigRegistries, ConfigResolutions, ConfigMaxDepths)

NextConfig ==
    \/ perform_interpolation
    \/ \E value \in ConfigResolutions : SetDepthResolution(value)
    \/ \E value \in ConfigMaxDepths : SetMaxDepth(value)
    \/ ToggleFillValues

\* any sequence of settings edits and interpolation runs
SpecConfig == InitConfig /\ [][NextConfig]_vars

\* a second variable name of the interpolation tab
OtherVariable == "sal"

\* a frame holding the columns named in names over the given index
FrameOf(depth, index, names) ==
    [depth |-> depth, index |-> index,
     cols |-> [v \in names |->
                 [j \in DOMAIN index |->
                     IF v = Variable THEN AxisReading(depth, index[j])
                     ELSE Num(MaxVal)]]]

\* variable scenarios: one or two sensors, each holding any of the two
\* variables, all over the same index (Times, or no row at all)
VarRegistries ==
    UNION {{[i \in DOMAIN ks |-> FrameOf(ks[i], index, names[i])] :
               names \in [DOMAIN ks -> SUBSET {Variable, OtherVariable}],
               index \in {<<>>, Ascending(Times)}} :
           ks \in {Ascending(S) : S \in {K \in KeySets : Cardinality(K) <= 2}}}

\* both variables checked, in either checkbox order
InitVars ==
    /\ InitStages(VarRegistries, {1}, {MaxDepth})
    /\ \E order \in {<<Variable, OtherVariable>>, <<OtherVariable, Variable>>} :
          interp_var_checkboxes = [i \in 1..2 |-> [name |-> order[i], checked |-> TRUE]]

SpecVars == InitVars /\ [][Next]_vars

(***************************************************************************)
(* The stages before and after interpolation: file selection, load_files,  *)
(* the variable listboxes, process_data, the depth editor, generate_plot   *)
(* and save_plot.  A file stands for what the loader and the processing    *)
(* settings make of it: a depth in its name or none, and the frame         *)
(* (index, columns) process_data derives from it.  Column renaming, type   *)
(* conversion and resampling are not modelled.                             *)
(***************************************************************************)
\* the files the dialogs can return
Files == {1, 2, 3, 4, 5}

\* at most this many files are selected at once
MaxSelected == 3

\* at most this many depth editors are open at once
MaxEditors == 1

\* re.search(pattern, basename) matches: every name but that of file 3
NameMatches(file_path) == file_path # 3

\* float(match.group(1)): files 1 and 2 name the same depth
FilenameDepth(file_path) ==
    CASE file_path = 1 -> 1
      [] file_path = 2 -> 1
      [] file_path = 4 -> 2
      [] OTHER -> 3

\* pd.read_csv succeeds on every file but file 5
Readable(file_path) == file_path # 5

\* the columns of the file: file 1 has both variables
FileColumns(file_path) ==
    IF file_path = 1 THEN <<Variable, OtherVariable>> ELSE <<Variable>>

\* the index of the file's frame: file 4 has a header and no rows
FileIndex(file_path) == IF file_path = 4 THEN <<>> ELSE Ascending(Times)

\* the frame read from the file, its readings telling the files apart
FileFrame(file_path) ==
    [file  |-> file_path,
     index |-> FileIndex(file_path),
     cols  |-> [v \in Range(FileColumns(file_path)) |->
                  [j \in DOMAIN FileIndex(file_path) |->
                      Num((file_path + FileIndex(file_path)[j]
                           + (IF v = Variable THEN 0 ELSE 1)) % (MaxVal + 1))]]]

\* the sequences of distinct files a dialog can return
Selections ==
    UNION {{s \in [1..n -> Files] : \A i, j \in 1..n : i # j => s[i] # s[j]} :
           n \in 1..MaxSelected}

\* select_files, select_directory: the dialog returns files
select_files(files) ==
    /\ input_files' = files
    /\ status_var' = <<"Selected", Len(files)>>
    /\ messages' = {}
    /\ UNCHANGED <<processed_dfs, sensor_depths, available_vars, selected_vars,
                   editors, current_figure, depth_arrays, depth_resolution,
                   max_depth, fill_values, interp_var_checkboxes,
                   interpolated_arrays, viz_variable, plot_title, notebook>>

clear_selection ==
    /\ input_files' = <<>>
    /\ status_var' = <<"File selection cleared", 0>>
    /\ messages' = {}
    /\ UNCHANGED <<processed_dfs, sensor_depths, available_vars, selected_vars,
                   editors, current_figure, depth_arrays, depth_resolution,
                   max_depth, fill_values, interp_var_checkboxes,
                   interpolated_arrays, viz_variable, plot_title, notebook>>

\* the depth load_files gives the file at position i of files: the one in
\* its name, or float(self.input_files.index(file_path))
ExtractDepth(files, i) ==
    IF NameMatches(files[i]) THEN FilenameDepth(files[i])
    ELSE i - 1

load_files ==
    IF input_files = <<>>
    THEN /\ messages' = {"No Files"}
         /\ UNCHANGED <<stage_vars, depth_arrays, depth_resolution, max_depth,
                        fill_values, interp_var_checkboxes, interpolated_arrays,
                        viz_variable, plot_title, status_var, notebook>>
    ELSE LET loaded == SelectSeq(input_files, Readable)
         IN /\ processed_dfs' = [i \in DOMAIN loaded |-> FileFrame(loaded[i])]
            /\ sensor_depths' =
                  [f \in Range(loaded) |->
                      ExtractDepth(input_files, PositionOf(input_files, f))]
            /\ messages' =
                  {"Error" : f \in {g \in Range(input_files) : ~Readable(g)}}
                  \cup {"Depth Extraction" :
                           f \in {g \in Range(loaded) : ~NameMatches(g)}}
            /\ IF loaded # <<>>
               THEN /\ status_var' = <<"Successfully loaded", Len(loaded)>>
                    /\ available_vars' = FileColumns(loaded[1])
                    /\ notebook' = 1
               ELSE /\ status_var' = <<"Failed to load any files", 0>>
                    /\ UNCHANGED <<available_vars, notebook>>
            /\ UNCHANGED <<input_files, selected_vars, editors, current_figure,
                           depth_arrays, depth_resolution, max_depth, fill_values,
                           interp_var_checkboxes, interpolated_arrays,
                           viz_variable, plot_title>>

\* add_variables with one listbox row selected
add_variables(var) ==
    /\ Contains(available_vars, var)
    /\ selected_vars' = IF Contains(selected_vars, var) THEN selected_vars
                        ELSE Append(selected_vars, var)
    /\ UNCHANGED <<input_files, processed_dfs, sensor_depths, available_vars,
                   editors, current_figure, depth_arrays, depth_resolution,
                   max_depth, fill_values, interp_var_checkboxes,
                   interpolated_arrays, viz_variable, plot_title, status_var,
                   notebook, messages>>

\* remove_variables with one listbox row selected
remove_variables(var) ==
    /\ Contains(selected_vars, var)
    /\ selected_vars' = SelectSeq(selected_vars, LAMBDA v : v # var)
    /\ UNCHANGED <<input_files, processed_dfs, sensor_depths, available_vars,
                   editors, current_figure, depth_arrays, depth_resolution,
                   max_depth, fill_values, interp_var_checkboxes,
                   interpolated_arrays, viz_variable, plot_title, status_var,
                   notebook, messages>>

\* the registry entry made of a series
Entry(depth, df) == [depth |-> depth, index |-> df.index, cols |-> df.cols]

\* DictSet keeping the series already stored under the depth
DictSetKeepsFirst(reg, depth, df) ==
    IF \E i \in DOMAIN reg : reg[i].depth = depth
    THEN reg
    ELSE Append(reg, Entry(depth, df))

\* reg[depth] = df on a dict: a key already there keeps its place and gets
\* the new series, a new key goes last
DictSet(reg, depth, df) ==
    IF \E i \in DOMAIN reg : reg[i].depth = depth
    THEN [i \in DOMAIN reg |->
             IF reg[i].depth = depth THEN Entry(depth, df) ELSE reg[i]]
    ELSE Append(reg, Entry(depth, df))

\* df[selected_cols.keys()]: the selected columns the frame has
SelectColumns(df, selected) ==
    [index |-> df.index,
     cols  |-> [v \in {w \in Range(selected) : w \in DOMAIN df.cols} |-> df.cols[v]],
     names |-> SelectSeq(selected, LAMBDA w : w \in DOMAIN df.cols)]

\* the loop of process_data over processed_dfs, from position i on
RECURSIVE ProcessFrames(_, _, _, _, _)
ProcessFrames(dfs, depths, selected, i, reg) ==
    IF i > Len(dfs) THEN reg
    ELSE ProcessFrames(dfs, depths, selected, i + 1,
             DictSet(reg, depths[dfs[i].file], SelectColumns(dfs[i], selected)))

\* the columns of next(iter(self.depth_arrays.values())): those of the file
\* that first put the first depth in the registry, or of its replacement
SampleColumns(dfs, depths, selected) ==
    LET first_depth == depths[dfs[1].file]
        same == SelectSeq(dfs, LAMBDA df : depths[df.file] = first_depth)
    IN SelectColumns(Last(same), selected).names

\* process_data without its "No Data" guard: with nothing loaded the loop
\* does not run and the emptied registry is kept
process_dataUnguarded ==
    IF selected_vars = <<>>
    THEN /\ messages' = {"No Variables"}
         /\ UNCHANGED <<stage_vars, depth_arrays, depth_resolution, max_depth,
                        fill_values, interp_var_checkboxes, interpolated_arrays,
                        viz_variable, plot_title, status_var, notebook>>
    ELSE /\ depth_arrays' = ProcessFrames(processed_dfs, sensor_depths,
                                          selected_vars, 1, <<>>)
         /\ interp_var_checkboxes' =
               IF processed_dfs = <<>> THEN interp_var_checkboxes
               ELSE LET columns == SampleColumns(processed_dfs, sensor_depths,
                                                 selected_vars)
                    IN [i \in DOMAIN columns |->
                           [name |-> columns[i], checked |-> TRUE]]
         /\ status_var' = <<"Processed", Len(depth_arrays')>>
         /\ notebook' = 2
         /\ messages' = {}
         /\ UNCHANGED <<stage_vars, depth_resolution, max_depth, fill_values,
                        interpolated_arrays, viz_variable, plot_title>>

process_data ==
    IF processed_dfs = <<>>
    THEN /\ messages' = {"No Data"}
         /\ UNCHANGED <<stage_vars, depth_arrays, depth_resolution, max_depth,
                        fill_values, interp_var_checkboxes, interpolated_arrays,
                        viz_variable, plot_title, status_var, notebook>>
    ELSE IF selected_vars = <<>>
    THEN /\ messages' = {"No Variables"}
         /\ UNCHANGED <<stage_vars, depth_arrays, depth_resolution, max_depth,
                        fill_values, interp_var_checkboxes, interpolated_arrays,
                        viz_variable, plot_title, status_var, notebook>>
    ELSE /\ depth_arrays' = ProcessFrames(processed_dfs, sensor_depths,
                                          selected_vars, 1, <<>>)
         /\ interp_var_checkboxes' =
               LET columns == SampleColumns(processed_dfs, sensor_depths,
                                            selected_vars)
               IN [i \in DOMAIN columns |-> [name |-> columns[i], checked |-> TRUE]]
         /\ status_var' = <<"Processed", Len(depth_arrays')>>
         /\ notebook' = 2
         /\ messages' = {}
         /\ UNCHANGED <<stage_vars, depth_resolution, max_depth, fill_values,
                        interpolated_arrays, viz_variable, plot_title>>

\* sorted(self.depth_arrays.items()): the depths the editor shows
SortedDepths(reg) == Ascending({reg[i].depth : i \in DOMAIN reg})

\* the "Edit Sensor Depths" button
edit_sensor_depths ==
    IF depth_arrays = <<>>
    THEN /\ messages' = {"No Data"}
         /\ UNCHANGED <<stage_vars, depth_arrays, depth_resolution, max_depth,
                        fill_values, interp_var_checkboxes, interpolated_arrays,
                        viz_variable, plot_title, status_var, notebook>>
    ELSE /\ Len(editors) < MaxEditors
         /\ editors' = Append(editors, SortedDepths(depth_arrays))
         /\ messages' = {}
         /\ UNCHANGED <<input_files, processed_dfs, sensor_depths, available_vars,
                        selected_vars, current_figure, depth_arrays,
                        depth_resolution, max_depth, fill_values,
                        interp_var_checkboxes, interpolated_arrays, viz_variable,
                        plot_title, status_var, notebook>>

\* self.depth_arrays[old_depth]
SeriesAt(reg, depth) == reg[CHOOSE i \in DOMAIN reg : reg[i].depth = depth]

\* the loop of save_depths over depth_entries, from position i on
RECURSIVE Rekey(_, _, _, _, _)
Rekey(reg, old_depths, new_depths, i, new_depth_arrays) ==
    IF i > Len(old_depths) THEN new_depth_arrays
    ELSE Rekey(reg, old_depths, new_depths, i + 1,
               DictSet(new_depth_arrays, new_depths[i],
                       SeriesAt(reg, old_depths[i])))

RemoveAt(s, w) == [i \in 1..(Len(s) - 1) |-> IF i < w THEN s[i] ELSE s[i + 1]]

\* "Save Changes" in editor w, its entries holding new_depths; a depth the
\* registry no longer has raises KeyError in the callback, which changes
\* nothing and leaves the window open
save_depths(w, new_depths) ==
    /\ w \in DOMAIN editors
    /\ DOMAIN new_depths = DOMAIN editors[w]
    /\ IF \A i \in DOMAIN editors[w] :
             \E k \in DOMAIN depth_arrays : depth_arrays[k].depth = editors[w][i]
       THEN /\ depth_arrays' = Rekey(depth_arrays, editors[w], new_depths, 1, <<>>)
            /\ editors' = RemoveAt(editors, w)
            /\ messages' = {"Success"}
       ELSE /\ messages' = {}
            /\ UNCHANGED <<depth_arrays, editors>>
    /\ UNCHANGED <<input_files, processed_dfs, sensor_depths, available_vars,
                   selected_vars, current_figure, depth_resolution, max_depth,
                   fill_values, interp_var_checkboxes, interpolated_arrays,
                   viz_variable, plot_title, status_var, notebook>>

\* the editor window closed without saving
close_edit_window(w) ==
    /\ w \in DOMAIN editors
    /\ editors' = RemoveAt(editors, w)
    /\ UNCHANGED <<input_files, processed_dfs, sensor_depths, available_vars,
                   selected_vars, current_figure, depth_arrays, depth_resolution,
                   max_depth, fill_values, interp_var_checkboxes,
                   interpolated_arrays, viz_variable, plot_title, status_var,
                   notebook, messages>>

\* depths.max() or time_nums.min() raises on an empty axis
PlotRaises(grid) == grid.depths = <<>> \/ grid.times = <<>>

generate_plot ==
    /\ IF DOMAIN interpolated_arrays = {}
       THEN /\ messages' = {"No Data"}
            /\ UNCHANGED current_figure
       ELSE IF viz_variable = "" \/ viz_variable \notin DOMAIN interpolated_arrays
       THEN /\ messages' = {"Invalid Variable"}
            /\ UNCHANGED current_figure
       ELSE IF PlotRaises(interpolated_arrays[viz_variable])
       THEN /\ messages' = {"Visualization Error"}
            /\ UNCHANGED current_figure
       ELSE /\ messages' = {}
            /\ current_figure' = viz_variable
    /\ UNCHANGED <<input_files, processed_dfs, sensor_depths, available_vars,
                   selected_vars, editors, depth_arrays, depth_resolution,
                   max_depth, fill_values, interp_var_checkboxes,
                   interpolated_arrays, viz_variable, plot_title, status_var,
                   notebook>>

\* save_plot: the file dialog returns a path or not, savefig succeeds or not
save_plot(path_chosen, saved) ==
    /\ IF current_figure = ""
       THEN /\ messages' = {"No Plot"}
            /\ UNCHANGED status_var
       ELSE IF ~path_chosen
       THEN /\ messages' = {}
            /\ UNCHANGED status_var
       ELSE IF saved
       THEN /\ messages' = {"Save Successful"}
            /\ status_var' = <<"Plot saved", 0>>
       ELSE /\ messages' = {"Save Error"}
            /\ UNCHANGED status_var
    /\ UNCHANGED <<stage_vars, depth_arrays, depth_resolution, max_depth,
                   fill_values, interp_var_checkboxes, interpolated_arrays,
                   viz_variable, plot_title, notebook>>

\* the import and processing tabs
NextLoad ==
    \/ load_files
    \/ \E var \in {Variable, OtherVariable} : add_variables(var)
    \/ \E var \in {Variable, OtherVariable} : remove_variables(var)
    \/ process_data

\* the state select_files leaves on a fresh application
InitSelected ==
    \E files \in Selections :
        /\ input_files = files
        /\ processed_dfs = <<>>
        /\ sensor_depths = EmptyMap
        /\ available_vars = <<>>
        /\ selected_vars = <<>>
        /\ editors = <<>>
        /\ current_figure = ""
        /\ depth_arrays = <<>>
        /\ depth_resolution = 1
        /\ max_depth = MaxDepth
        /\ fill_values = TRUE
        /\ interp_var_checkboxes = <<>>
        /\ interpolated_arrays = EmptyMap
        /\ viz_variable = ""
        /\ plot_title = ""
        /\ status_var = <<"Selected", Len(files)>>
        /\ notebook = 0
        /\ messages = {}

\* loading and processing one selection of files
SpecLoad == InitSelected /\ [][NextLoad]_vars

\* depth-editing scenarios: one to three sensors registered shallowest
\* first or deepest first, all over the index Times, the readings of each
\* telling it from the others
EditRegistries ==
    {[i \in DOMAIN ks |->
         Frame(ks[i], Ascending(Times),
               [j \in 1..Cardinality(Times) |->
                   AxisReading(ks[i], Ascending(Times)[j])])] :
        ks \in {Ascending(S) : S \in KeySets}
               \cup {Reverse(Ascending(S)) : S \in KeySets}}

InitEdit == InitWith(EditRegistries, {1}, {MaxDepth})

\* the depth editor, and process_data run again on the loaded files
NextEdit ==
    \/ edit_sensor_depths
    \/ \E w \in DOMAIN editors :
          \E new_depths \in [DOMAIN editors[w] -> DepthKeys] :
              save_depths(w, new_depths)
    \/ \E w \in DOMAIN editors : close_edit_window(w)
    \/ process_data

SpecEdit == InitEdit /\ [][NextEdit]_vars

\* grid-lifetime scenarios: a sensor at depth 1 holding both variables and
\* one at depth 2 holding the first only, over Times or without rows
LifetimeRegistries ==
    {<<FrameOf(1, index, {Variable, OtherVariable}), FrameOf(2, index, {Variable})>> :
        index \in {<<>>, Ascending(Times)}}

\* the depths typed into the editor in the grid-lifetime scenarios
EditedDepths == {1, 2}

InitLifetime ==
    /\ InitStages(LifetimeRegistries, {1}, {MaxDepth})
    /\ interp_var_checkboxes = <<[name |-> Variable, checked |-> TRUE],
                                 [name |-> OtherVariable, checked |-> TRUE]>>

\* every operation that reads or could write the stored grids
NextLifetime ==
    \/ load_files
    \/ process_data
    \/ edit_sensor_depths
    \/ \E w \in DOMAIN editors :
          \E new_depths \in [DOMAIN editors[w] -> EditedDepths] :
              save_depths(w, new_depths)
    \/ \E w \in DOMAIN editors : close_edit_window(w)
    \/ perform_interpolation
    \/ generate_plot
    \/ \E path_chosen, saved \in BOOLEAN : save_plot(path_chosen, saved)

SpecLifetime == InitLifetime /\ [][NextLifetime]_vars

\* re-saving scenarios: two sensors registered shallowest first or deepest
\* first, each with its own index (any subset of AxisTimes)
ResaveRegistries ==
    {reg \in AxisRegistries : Len(reg) = 2}

InitResave == InitWith(ResaveRegistries, {1}, {MaxDepth})

\* the depth editor saved with its entries as shown, and interpolation
NextResave ==
    \/ edit_sensor_depths
    \/ \E w \in DOMAIN editors : save_depths(w, editors[w])
    \/ \E w \in DOMAIN editors : close_edit_window(w)
    \/ perform_interpolation

SpecResave == InitResave /\ [][NextResave]_vars

\* the state __init__ leaves, the interpolation settings at valid values
InitApp ==
    /\ input_files = <<>>
    /\ processed_dfs = <<>>
    /\ sensor_depths = EmptyMap
    /\ available_vars = <<>>
    /\ selected_vars = <<>>
    /\ editors = <<>>
    /\ current_figure = ""
    /\ depth_arrays = <<>>
    /\ depth_resolution = 1
    /\ max_depth = MaxDepth
    /\ fill_values = TRUE
    /\ interp_var_checkboxes = <<>>
    /\ interpolated_arrays = EmptyMap
    /\ viz_variable = ""
    /\ plot_title = ""
    /\ status_var = <<"Ready", 0>>
    /\ notebook = 0
    /\ messages = {}

\* the selections of the button-press scenarios: a readable file, the
\* unreadable one, a readable file with the one that has no rows
AppSelections == {<<1>>, <<5>>, <<1, 4>>}

\* the buttons of the four tabs, pressed in any order
NextApp ==
    \/ \E files \in AppSelections : select_files(files)
    \/ clear_selection
    \/ load_files
    \/ add_variables(Variable)
    \/ remove_variables(Variable)
    \/ process_data
    \/ edit_sensor_depths
    \/ \E w \in DOMAIN editors :
          \E new_depths \in [DOMAIN editors[w] -> EditedDepths] :
              save_depths(w, new_depths)
    \/ \E w \in DOMAIN editors : close_edit_window(w)
    \/ perform_interpolation
    \/ generate_plot
    \/ \E path_chosen, saved \in BOOLEAN : save_plot(path_chosen, saved)

SpecApp == InitApp /\ [][NextApp]_vars

(***************************************************************************)
(* Vocabulary of the properties below.                                     *)
(***************************************************************************)
\* the last perform_interpolation ran to its end
Ran == status_var[1] = "Interpolated"

\* the last perform_interpolation ended in its error handler
Failed == "Interpolation Error" \in messages

\* a grid is stored for the variable
Stored == Variable \in DOMAIN interpolated_arrays

Grid == interpolated_arrays[Variable]

\* the valid readings at timestamp ts: the (depth, value) of every sensor
\* whose series has ts with a value that is not missing
ReadingsAt(reg, ts) ==
    {[depth |-> reg[i].depth,
      value |-> reg[i].cols[Variable][PositionOf(reg[i].index, ts)]] :
        i \in {j \in DOMAIN reg :
                  /\ Variable \in DOMAIN reg[j].cols
                  /\ Contains(reg[j].index, ts)
                  /\ ~isnan(reg[j].cols[Variable][PositionOf(reg[j].index, ts)])}}

\* r1 and r2 are depth-adjacent in R and d lies strictly between them
Brackets(R, r1, r2, d) ==
    /\ r1.depth < d /\ d < r2.depth
    /\ ~\E r \in R : r1.depth < r.depth /\ r.depth < r2.depth

\* v1 + (v2 - v1) * (d - d1) / (d2 - d1)
Lerp(r1, r2, d) ==
    RAdd(r1.value, RMul(RSub(r2.value, r1.value),
                        Rat(d - r1.depth, r2.depth - r1.depth)))

\* the columns of the stored grid as they were before the fill pass
PreFillColumns ==
    InterpColumns(VarData(depth_arrays, Variable, Grid.times), Grid.times,
                  Grid.depths)

\* depth d is outside [min, max] of the depths of the readings R
OutsideRange(R, d) ==
    \/ \A r \in R : d < r.depth
    \/ \A r \in R : d > r.depth

(***************************************************************************)
(* C1: at every time index with at least two valid readings, every         *)
(* depth-axis point strictly between two depth-adjacent valid readings     *)
(* (d1,v1), (d2,v2) holds v1 + (v2-v1)*(d-d1)/(d2-d1).                     *)
(***************************************************************************)
C1_LinearBetweenAdjacent ==
    (Ran /\ Stored) =>
        \A t \in DOMAIN Grid.times : \A d \in DOMAIN Grid.depths :
            LET R == ReadingsAt(depth_arrays, Grid.times[t])
            IN Cardinality(R) >= 2 =>
                 \A r1, r2 \in R :
                    Brackets(R, r1, r2, Grid.depths[d]) =>
                        Grid.data[d][t] = Lerp(r1, r2, Grid.depths[d])

\* a cell strictly between two adjacent readings holds a proper fraction
C1_Witness ==
    /\ Ran /\ Stored
    /\ \E t \in DOMAIN Grid.times : \E d \in DOMAIN Grid.depths :
          LET R == ReadingsAt(depth_arrays, Grid.times[t])
          IN /\ Cardinality(R) = 3
             /\ \E r1, r2 \in R : Brackets(R, r1, r2, Grid.depths[d])
             /\ Grid.data[d][t][2] > 1

(***************************************************************************)
(* C2: with the fill flag set, in every time column that has a non-missing *)
(* cell after the interpolation pass, the cells shallower than the         *)
(* shallowest such cell hold its value and the cells deeper than the       *)
(* deepest such cell hold the deepest one's value, whatever the readings   *)
(* at the other time indices are.                                          *)
(***************************************************************************)
C2_BoundaryFillEveryColumn ==
    (Ran /\ Stored /\ fill_values) =>
        \A t \in DOMAIN Grid.times :
            LET valid == ValidDepthIndices(PreFillColumns[t])
            IN valid # {} =>
                 \A d \in DOMAIN Grid.depths :
                    /\ d < SetMin(valid) =>
                          Grid.data[d][t] = PreFillColumns[t][SetMin(valid)]
                    /\ d > SetMax(valid) =>
                          Grid.data[d][t] = PreFillColumns[t][SetMax(valid)]

(***************************************************************************)
(* C3: the column of the final grid at time index t depends only on the    *)
(* valid readings at t, the depth axis and the fill flag: replacing one    *)
(* sensor's reading at another time index leaves column t as it is.        *)
(***************************************************************************)
\* reg with the reading of sensor i at position j replaced by cell
WithReading(reg, i, j, cell) ==
    [reg EXCEPT ![i].cols[Variable][j] = cell]

\* column t of the grid a run on reg stores under the current settings
ColumnOfRun(reg, t) ==
    LET r == RunInterpolation(reg, depth_resolution, max_depth, fill_values,
                              VariablesToInterpolate(interp_var_checkboxes))
    IN [d \in DOMAIN r.arrays[Variable].depths |-> r.arrays[Variable].data[d][t]]

C3_ColumnDependsOnlyOnItsReadings ==
    (Ran /\ Stored) =>
        \A t \in DOMAIN Grid.times : \A i \in DOMAIN depth_arrays :
            \A j \in DOMAIN depth_arrays[i].index : \A cell \in Cells :
                depth_arrays[i].index[j] # Grid.times[t] =>
                    ColumnOfRun(WithReading(depth_arrays, i, j, cell), t)
                        = [d \in DOMAIN Grid.depths |-> Grid.data[d][t]]

(***************************************************************************)
(* C4: with the fill flag clear, every cell whose depth lies outside       *)
(* [min, max] of the depths of the valid readings at its time index is     *)
(* missing.                                                                *)
(***************************************************************************)
C4_NoFillOutsideMissing ==
    (Ran /\ Stored /\ ~fill_values) =>
        \A t \in DOMAIN Grid.times : \A d \in DOMAIN Grid.depths :
            OutsideRange(ReadingsAt(depth_arrays, Grid.times[t]), Grid.depths[d])
                => isnan(Grid.data[d][t])

\* C4 as amended: the same at every time index whose number of valid
\* readings is not exactly one
C4_NoFillOutsideMissingUnlessSingle ==
    (Ran /\ Stored /\ ~fill_values) =>
        \A t \in DOMAIN Grid.times : \A d \in DOMAIN Grid.depths :
            LET R == ReadingsAt(depth_arrays, Grid.times[t])
            IN (Cardinality(R) # 1 /\ OutsideRange(R, Grid.depths[d]))
                  => isnan(Grid.data[d][t])

\* without fill, a column with two readings has a missing cell above the
\* shallowest and one below the deepest reading
C4_Witness ==
    /\ Ran /\ Stored /\ ~fill_values
    /\ \E t \in DOMAIN Grid.times : \E d1, d2 \in DOMAIN Grid.depths :
          LET R == ReadingsAt(depth_arrays, Grid.times[t])
          IN /\ Cardinality(R) >= 2
             /\ \A r \in R : Grid.depths[d1] < r.depth /\ r.depth < Grid.depths[d2]
             /\ isnan(Grid.data[d1][t]) /\ isnan(Grid.data[d2][t])

(***************************************************************************)
(* C5: at every time index with at least two valid readings, a depth-axis  *)
(* point equal to the depth of a valid reading holds that reading's value. *)
(***************************************************************************)
C5_ExactAtSensorDepth ==
    (Ran /\ Stored) =>
        \A t \in DOMAIN Grid.times : \A d \in DOMAIN Grid.depths :
            LET R == ReadingsAt(depth_arrays, Grid.times[t])
            IN Cardinality(R) >= 2 =>
                 \A r \in R : r.depth = Grid.depths[d] => Grid.data[d][t] = r.value

\* three readings with different neighbours' values, each on an axis point
C5_Witness ==
    /\ Ran /\ Stored
    /\ \E t \in DOMAIN Grid.times :
          LET R == ReadingsAt(depth_arrays, Grid.times[t])
          IN /\ Cardinality(R) = 3
             /\ \A r \in R : \E d \in DOMAIN Grid.depths :
                   r.depth = Grid.depths[d] /\ Grid.data[d][t] = r.value
             /\ Cardinality({r.value : r \in R}) = 2

(***************************************************************************)
(* C6: at every time index with exactly one valid reading, every cell of   *)
(* the column holds that reading's value, for either fill setting and any  *)
(* depth of the reading.                                                   *)
(***************************************************************************)
C6_SingleReadingFillsColumn ==
    (Ran /\ Stored) =>
        \A t \in DOMAIN Grid.times :
            LET R == ReadingsAt(depth_arrays, Grid.times[t])
            IN Cardinality(R) = 1 =>
                 \A d \in DOMAIN Grid.depths : \A r \in R :
                    Grid.data[d][t] = r.value

\* a single reading deeper than every axis point, fill flag clear
C6_Witness ==
    /\ Ran /\ Stored /\ ~fill_values
    /\ \E t \in DOMAIN Grid.times :
          LET R == ReadingsAt(depth_arrays, Grid.times[t])
          IN /\ Cardinality(R) = 1
             /\ Len(Grid.depths) >= 2
             /\ \A r \in R : \A d \in DOMAIN Grid.depths :
                   Grid.depths[d] < r.depth /\ Grid.data[d][t] = r.value

(***************************************************************************)
(* C7: at every time index with no valid reading, every cell of the column *)
(* is missing, whether or not the fill flag is set.                        *)
(***************************************************************************)
C7_NoReadingColumnMissing ==
    (Ran /\ Stored) =>
        \A t \in DOMAIN Grid.times :
            ReadingsAt(depth_arrays, Grid.times[t]) = {} =>
                \A d \in DOMAIN Grid.depths : isnan(Grid.data[d][t])

\* the fill pass ran (the last time index has readings) over a column
\* without readings
C7_Witness ==
    /\ Ran /\ Stored /\ fill_values
    /\ Len(Grid.times) = 2 /\ Len(Grid.depths) >= 2
    /\ ReadingsAt(depth_arrays, Grid.times[1]) = {}
    /\ Cardinality(ReadingsAt(depth_arrays, Grid.times[2])) >= 2
    /\ \A d \in DOMAIN Grid.depths :
          isnan(Grid.data[d][1]) /\ ~isnan(Grid.data[d][2])

(***************************************************************************)
(* C8: whenever the set-intersection of all sensors' time axes is not      *)
(* empty, the time axis of the stored grid is that intersection in         *)
(* ascending order.                                                        *)
(***************************************************************************)
\* the timestamps every sensor's series has
CommonTimes(reg) ==
    {ts \in AxisTimes : \A i \in DOMAIN reg : Contains(reg[i].index, ts)}

\* the sensors' time axes are not all the same
AxesDiffer(reg) == \E i \in DOMAIN reg : reg[i].index # reg[1].index

C8_CommonAxisIsIntersection ==
    ((Ran \/ Failed) /\ CommonTimes(depth_arrays) # {}) =>
        /\ Stored
        /\ Grid.times = Ascending(CommonTimes(depth_arrays))

\* three differing axes whose intersection is <<1, 3>>
C8_Witness ==
    /\ Ran /\ Stored
    /\ Len(depth_arrays) = 3
    /\ depth_arrays[1].index = <<1, 2, 3>>
    /\ depth_arrays[2].index # depth_arrays[3].index
    /\ AxesDiffer(depth_arrays)
    /\ Grid.times = <<1, 3>>

(***************************************************************************)
(* C9: when the sensors' time axes differ and their intersection is empty, *)
(* the run shows the warning, does not fail, uses the first sensor's axis, *)
(* stores a grid for the variable, and a sensor contributes a valid        *)
(* reading at a timestamp only if its own series has that timestamp.       *)
(***************************************************************************)
C9_FallbackToFirstAxis ==
    ((Ran \/ Failed) /\ AxesDiffer(depth_arrays) /\ CommonTimes(depth_arrays) = {}) =>
        /\ "No Common Times" \in messages
        /\ ~Failed
        /\ Stored
        /\ Grid.times = depth_arrays[1].index
        /\ LET var_data == VarData(depth_arrays, Variable, Grid.times)
           IN \A i \in DOMAIN var_data : \A t \in DOMAIN Grid.times :
                 ~isnan(var_data[i].data[t]) =>
                     Contains(depth_arrays[i].index, Grid.times[t])

(***************************************************************************)
(* C10: a run under depth_resolution <= 0 or max_depth < 0 signals an      *)
(* error, produces no grid and leaves the stored grids and all other state *)
(* as they were.                                                           *)
(***************************************************************************)
InvalidConfig == depth_resolution <= 0 \/ max_depth < 0

C10_InvalidConfigRejected ==
    [][(InvalidConfig /\ perform_interpolation) =>
          /\ "Interpolation Error" \in messages'
          /\ interpolated_arrays' = interpolated_arrays
          /\ UNCHANGED <<stage_vars, depth_arrays, depth_resolution, max_depth, fill_values,
                         interp_var_checkboxes, viz_variable, plot_title,
                         status_var, notebook>>]_vars

(***************************************************************************)
(* C11: for depth_resolution > 0 and max_depth >= 0 the depth axis built   *)
(* by a run is 0, dd, 2dd, ... with exactly floor(max_depth/dd) + 1        *)
(* points.                                                                 *)
(***************************************************************************)
\* the depth axis stored by the step is 0, dd, 2dd, ...
StepStoresMultiples ==
    LET dp == interpolated_arrays'[Variable].depths
    IN \A i \in DOMAIN dp : dp[i] = (i - 1) * depth_resolution

\* a run under valid settings that stores a grid
ValidRunStep ==
    /\ depth_resolution > 0 /\ max_depth >= 0
    /\ perform_interpolation
    /\ Variable \in DOMAIN interpolated_arrays'

C11_DepthAxisFloorLength ==
    [][ValidRunStep =>
          /\ StepStoresMultiples
          /\ Len(interpolated_arrays'[Variable].depths)
                = (max_depth \div depth_resolution) + 1]_vars

\* C11 as amended: the axis runs up to the first multiple of dd that is not
\* below max_depth, so it has floor(max_depth/dd) + 1 points only when
\* max_depth is a multiple of dd and one more otherwise
C11_DepthAxisReachesMaxDepth ==
    [][ValidRunStep =>
          LET dp == interpolated_arrays'[Variable].depths
          IN /\ StepStoresMultiples
             /\ Len(dp) >= 1
             /\ Last(dp) >= max_depth
             /\ Last(dp) - depth_resolution < max_depth
             /\ Len(dp) = (max_depth \div depth_resolution) + 1
                          + (IF max_depth % depth_resolution = 0 THEN 0 ELSE 1)]_vars

\* resolution 2 under max_depth 3: the axis 0, 2, 4 ends beyond max_depth
C11_Witness ==
    /\ Ran /\ Stored
    /\ depth_resolution = 2 /\ max_depth = 3
    /\ Grid.depths = <<0, 2, 4>>

(***************************************************************************)
(* C13: for every non-empty registry and every valid configuration         *)
(* (depth_resolution > 0, max_depth >= 0) a run never reaches its error    *)
(* handler.                                                                *)
(***************************************************************************)
C13_NeverReachesErrorHandler ==
    (/\ Len(depth_arrays) > 0
     /\ depth_resolution > 0 /\ max_depth >= 0) => ~Failed

(***************************************************************************)
(* C14: the sensor time axes being strictly increasing, the common time    *)
(* axis a run uses (identical axes, intersection or fallback to the first  *)
(* axis) is strictly increasing, without duplicates.                       *)
(***************************************************************************)
StrictlyIncreasing(seq) ==
    \A i, j \in DOMAIN seq : i < j => seq[i] < seq[j]

C14_CommonAxisStrictlyIncreasing ==
    (/\ Ran /\ Stored
     /\ \A i \in DOMAIN depth_arrays : StrictlyIncreasing(depth_arrays[i].index))
        => StrictlyIncreasing(Grid.times)

\* differing axes with at least two common timestamps: the intersection
\* branch produced an axis of two or more points
C14_Witness ==
    /\ Ran /\ Stored
    /\ AxesDiffer(depth_arrays)
    /\ ~NoCommonTimes(depth_arrays)
    /\ Len(Grid.times) >= 2

(***************************************************************************)
(* C15: every stored grid has shape (length of the depth axis, length of   *)
(* the common time axis) and is stored together with exactly the depth     *)
(* axis and time axis the run used.                                        *)
(***************************************************************************)
C15_GridShapeMatchesAxes ==
    \A var \in DOMAIN interpolated_arrays :
        LET grid == interpolated_arrays[var]
        IN /\ DOMAIN grid.data = DOMAIN grid.depths
           /\ \A d \in DOMAIN grid.data : DOMAIN grid.data[d] = DOMAIN grid.times
           /\ (Ran \/ Failed) =>
                /\ \A d \in DOMAIN grid.depths :
                       grid.depths[d] = (d - 1) * depth_resolution
                /\ Len(grid.depths) >= 1
                /\ Last(grid.depths) >= max_depth
                /\ grid.times = depth_arrays[1].index

\* a stored grid with more depth points than timestamps
C15_Witness ==
    /\ Ran /\ Stored
    /\ Len(Grid.data) = 4
    /\ Len(Grid.data[4]) = 2
    /\ Len(Grid.depths) > Len(Grid.times)

(***************************************************************************)
(* C16: at every time index where the valid readings are non-decreasing    *)
(* in depth, the non-missing cells of the column are non-decreasing along  *)
(* the depth axis, with the fill option on or off.                         *)
(***************************************************************************)
\* x <= y for two values that are not missing
RLeq(x, y) == x[1] * y[2] <= y[1] * x[2]

\* the readings R do not decrease with depth
NonDecreasingReadings(R) ==
    \A r1, r2 \in R : r1.depth < r2.depth => RLeq(r1.value, r2.value)

\* the non-missing cells of column t of the stored grid do not decrease
\* with depth
NonDecreasingColumn(t) ==
    \A d1, d2 \in DOMAIN Grid.depths :
        (d1 < d2 /\ ~isnan(Grid.data[d1][t]) /\ ~isnan(Grid.data[d2][t]))
            => RLeq(Grid.data[d1][t], Grid.data[d2][t])

C16_MonotoneReadingsMonotoneColumn ==
    (Ran /\ Stored) =>
        \A t \in DOMAIN Grid.times :
            NonDecreasingReadings(ReadingsAt(depth_arrays, Grid.times[t]))
                => NonDecreasingColumn(t)

\* a filled column over readings that rise with depth: every cell present,
\* the shallowest below the deepest
C16_Witness ==
    /\ Ran /\ Stored /\ fill_values
    /\ \E t \in DOMAIN Grid.times :
          LET R == ReadingsAt(depth_arrays, Grid.times[t])
          IN /\ Cardinality(R) >= 2
             /\ NonDecreasingReadings(R)
             /\ \E r1, r2 \in R : r1.value # r2.value
             /\ \A d \in DOMAIN Grid.depths : ~isnan(Grid.data[d][t])
             /\ \E d \in DOMAIN Grid.depths :
                   /\ \A r \in R : Grid.depths[d] < r.depth
                   /\ Grid.data[d][t] # Grid.data[Len(Grid.depths)][t]

(***************************************************************************)
(* C12: when a requested variable is absent from every sensor the caller   *)
(* is notified, no grid is stored for that variable, and the grids of      *)
(* every other requested variable are still stored, whatever the order in  *)
(* which the variables are processed.                                      *)
(***************************************************************************)
\* no frame of the registry has the variable as a column
AbsentEverywhere(reg, var) ==
    \A i \in DOMAIN reg : var \notin DOMAIN reg[i].cols

Requested == Range(VariablesToInterpolate(interp_var_checkboxes))

C12_MissingVariableSkipped ==
    (Ran \/ Failed) =>
        \A var \in Requested :
            AbsentEverywhere(depth_arrays, var) =>
                /\ "Missing Variable" \in messages
                /\ var \notin DOMAIN interpolated_arrays
                /\ \A other \in Requested :
                       ~AbsentEverywhere(depth_arrays, other)
                           => other \in DOMAIN interpolated_arrays

(***************************************************************************)
(* C18: the registry holds at most one series per depth: when process_data *)
(* handles two loaded files of the same depth, the series of the file      *)
(* processed later replaces the earlier one's, and the registry has as     *)
(* many entries as there are distinct depths among the loaded files.       *)
(***************************************************************************)
\* the depths load_files gave the loaded files
LoadedDepths ==
    {sensor_depths[processed_dfs[i].file] : i \in DOMAIN processed_dfs}

\* the position in processed_dfs of the last loaded file of the depth
LastLoadedAt(depth) ==
    SetMax({i \in DOMAIN processed_dfs :
               sensor_depths[processed_dfs[i].file] = depth})

\* process_data gets past its two guards
ProcessStep ==
    /\ processed_dfs # <<>>
    /\ selected_vars # <<>>
    /\ process_data

SameSeries(a, b) == a.index = b.index /\ a.cols = b.cols

PairwiseDistinct(seq) ==
    \A i, j \in DOMAIN seq : i # j => seq[i] # seq[j]

\* Save Changes in editor w with the entries new_depths goes through
SaveStep(w, new_depths) ==
    /\ save_depths(w, new_depths)
    /\ "Success" \in messages'

C19_SaveChangesOnlyRekeys ==
    [][\A w \in DOMAIN editors :
          \A new_depths \in [DOMAIN editors[w] -> DepthKeys] :
              SaveStep(w, new_depths) =>
                  /\ \A k \in DOMAIN depth_arrays' :
                         \E i \in DOMAIN depth_arrays :
                             SameSeries(depth_arrays'[k], depth_arrays[i])
                  /\ PairwiseDistinct(new_depths) =>
                         \A i \in DOMAIN depth_arrays :
                             \E j \in DOMAIN editors[w] :
                                 /\ editors[w][j] = depth_arrays[i].depth
                                 /\ \E k \in DOMAIN depth_arrays' :
                                        /\ depth_arrays'[k].depth = new_depths[j]
                                        /\ SameSeries(depth_arrays'[k],
                                                      depth_arrays[i])]_vars

(***************************************************************************)
(* C20: a stored grid is never modified in place: only                     *)
(* perform_interpolation changes the stored grids, and it discards the     *)
(* whole previous set and stores newly built ones; load_files,             *)
(* process_data, the depth editor, generate_plot and save_plot leave the   *)
(* stored grids unchanged.                                                 *)
(***************************************************************************)
\* perform_interpolation gets past its two guards
RunStep ==
    /\ depth_arrays # <<>>
    /\ Requested # {}
    /\ perform_interpolation

\* the grid the run builds for var from the registry and settings it reads
BuiltGrid(var) ==
    LET time_index == CommonTimeIndex(depth_arrays)
    IN GridEntry(VarData(depth_arrays, var, time_index), time_index,
                 DepthPoints(depth_resolution, max_depth), fill_values)

C20_GridsChangeOnlyByRun ==
    [][/\ interpolated_arrays' # interpolated_arrays => RunStep
       /\ RunStep =>
             \A var \in DOMAIN interpolated_arrays' :
                 /\ var \in Requested
                 /\ ~AbsentEverywhere(depth_arrays, var)
                 /\ interpolated_arrays'[var] = BuiltGrid(var)]_vars

\* a figure drawn from a grid, the registry since re-keyed by the editor so
\* that the stored grid is no longer the one a run would build
C20_Witness ==
    /\ Stored
    /\ current_figure = Variable
    /\ "Success" \in messages
    /\ depth_arrays # <<>>
    /\ Grid # BuiltGrid(Variable)

(***************************************************************************)
(* C21: for each requested variable a run exposes to the renderer a result *)
(* carrying the value array, the depth axis, the common time axis and a    *)
(* status indicator that is one of ok, skipped-missing-variable or         *)
(* degraded-no-common-time, so that a skipped variable and a degraded time *)
(* axis can be told from a normal result.                                  *)
(***************************************************************************)
StatusIndicators == {"ok", "skipped-missing-variable", "degraded-no-common-time"}

\* the result exposed for var carries the three fields and a status
CarriesStatus(var) ==
    /\ var \in DOMAIN interpolated_arrays
    /\ {"data", "depths", "times", "status"} \subseteq DOMAIN interpolated_arrays[var]
    /\ interpolated_arrays[var].status \in StatusIndicators

C21_ResultCarriesStatus ==
    Ran => \A var \in Requested :
               /\ CarriesStatus(var)
               /\ NoCommonTimes(depth_arrays)
                      => interpolated_arrays[var].status = "degraded-no-common-time"

(***************************************************************************)
(* C22: after alignment each sensor that has the variable contributes one  *)
(* entry per timestamp of the common time axis, in axis order: the         *)
(* sensor's own value at that timestamp when its axis contains it, the     *)
(* missing marker otherwise (sensor axes strictly increasing).             *)
(***************************************************************************)
\* the sensor's own value of the variable at timestamp ts, or the missing
\* marker when its axis lacks ts
OwnValueAt(df, ts) ==
    IF \E p \in DOMAIN df.index : df.index[p] = ts
    THEN LET p == CHOOSE q \in DOMAIN df.index : df.index[q] = ts
         IN df.cols[Variable][p]
    ELSE NaN

C22_AlignedSeriesFollowsAxis ==
    (/\ Ran /\ Stored
     /\ \A i \in DOMAIN depth_arrays : StrictlyIncreasing(depth_arrays[i].index))
    => LET var_data == VarData(depth_arrays, Variable, Grid.times)
       IN /\ Len(var_data) = Len(depth_arrays)
          /\ \A i \in DOMAIN depth_arrays :
                /\ var_data[i].depth = depth_arrays[i].depth
                /\ DOMAIN var_data[i].data = DOMAIN Grid.times
                /\ \A j \in DOMAIN Grid.times :
                       var_data[i].data[j] = OwnValueAt(depth_arrays[i], Grid.times[j])

\* a fallback axis of which some sensor lacks one timestamp and holds
\* another at a different position of its own axis
C22_Witness ==
    /\ Ran /\ Stored
    /\ \E i \in DOMAIN depth_arrays : \E j, k \in DOMAIN Grid.times :
          /\ ~Contains(depth_arrays[i].index, Grid.times[j])
          /\ Contains(depth_arrays[i].index, Grid.times[k])
          /\ PositionOf(depth_arrays[i].index, Grid.times[k]) # k
          /\ ~isnan(VarData(depth_arrays, Variable, Grid.times)[i].data[k])

(***************************************************************************)
(* C23: a sensor whose series lacks the requested variable is never        *)
(* counted among the valid readings at any time index, and the grid of     *)
(* that variable is produced from the remaining sensors exactly as if the  *)
(* sensor's depth were not in the registry for that variable (same time    *)
(* axis, same interpolation and fill).                                     *)
(***************************************************************************)
\* the registry entries that have the variable
SensorsWith(reg, var) == SelectSeq(reg, LAMBDA df : var \in DOMAIN df.cols)

\* the (depth, value) pairs a column of the grid can be built from: the
\* readings, at the timestamp, of the sensors that have the variable
ReadingsOf(reg, var, ts) ==
    {[depth |-> reg[i].depth,
      value |-> reg[i].cols[var][PositionOf(reg[i].index, ts)]] :
        i \in {k \in DOMAIN reg : /\ var \in DOMAIN reg[k].cols
                                  /\ Contains(reg[k].index, ts)}}

C23_SensorWithoutVariableExcluded ==
    Ran =>
        \A var \in DOMAIN interpolated_arrays :
            LET grid == interpolated_arrays[var]
                var_data == VarData(depth_arrays, var, grid.times)
            IN /\ \A t \in DOMAIN grid.times :
                      \A r \in Range(ValidReadings(var_data, t)) :
                          r \in ReadingsOf(depth_arrays, var, grid.times[t])
               /\ grid = GridEntry(VarData(SensorsWith(depth_arrays, var), var,
                                           grid.times),
                                   grid.times, grid.depths, fill_values)
               /\ grid.times = CommonTimeIndex(depth_arrays)

\* a grid stored for a variable that one sensor has and another lacks, with
\* a cell at the depth of the sensor lacking it
C23_Witness ==
    /\ Ran /\ Stored
    /\ Len(Grid.times) > 0
    /\ \E i, k \in DOMAIN depth_arrays :
          /\ Variable \notin DOMAIN depth_arrays[i].cols
          /\ Variable \in DOMAIN depth_arrays[k].cols
          /\ \E d \in DOMAIN Grid.depths :
                /\ Grid.depths[d] = depth_arrays[i].depth
                /\ ~isnan(Grid.data[d][1])

(***************************************************************************)
(* C24: a run leaves the registry (its depth keys, their iteration order   *)
(* and every series) unchanged, and the grid it stores for a variable v    *)
(* depends only on v's readings: two runs whose registries differ only in  *)
(* the values of other variables store the same grid for v.                *)
(***************************************************************************)
\* reg with reading j of variable other of sensor i replaced by cell
WithReadingOf(reg, other, i, j, cell) ==
    [reg EXCEPT ![i].cols[other][j] = cell]

\* the grids a run on reg stores under the current settings and checkboxes
GridsOfRun(reg) ==
    RunInterpolation(reg, depth_resolution, max_depth, fill_values,
                     VariablesToInterpolate(interp_var_checkboxes)).arrays

C24_RunReadsOnlyItsVariable ==
    [][RunStep =>
          /\ depth_arrays' = depth_arrays
          /\ \A var \in DOMAIN interpolated_arrays' :
               \A other \in {Variable, OtherVariable} \ {var} :
                 \A i \in DOMAIN depth_arrays :
                   other \in DOMAIN depth_arrays[i].cols =>
                     \A j \in DOMAIN depth_arrays[i].index : \A cell \in Cells :
                        LET grids == GridsOfRun(WithReadingOf(depth_arrays, other,
                                                              i, j, cell))
                        IN /\ var \in DOMAIN grids
                           /\ grids[var] = interpolated_arrays'[var]]_vars

\* both grids stored, their values differing, from a sensor that holds both
\* variables
C24_Witness ==
    /\ Ran
    /\ DOMAIN interpolated_arrays = {Variable, OtherVariable}
    /\ Len(Grid.times) > 0
    /\ \E i \in DOMAIN depth_arrays :
          DOMAIN depth_arrays[i].cols = {Variable, OtherVariable}
    /\ interpolated_arrays[Variable].data # interpolated_arrays[OtherVariable].data

(***************************************************************************)
(* C25: with the fill option on, every time column that has at least one   *)
(* valid reading has no missing cell in the final grid, wherever the       *)
(* sensor depths lie relative to the depth axis points (sensors all        *)
(* between two adjacent axis points or all deeper than max_depth           *)
(* included).                                                              *)
(***************************************************************************)
C25_FilledColumnHasNoMissingCell ==
    (Ran /\ Stored /\ fill_values) =>
        \A t \in DOMAIN Grid.times :
            ReadingsAt(depth_arrays, Grid.times[t]) # {} =>
                \A d \in DOMAIN Grid.depths : ~isnan(Grid.data[d][t])

(***************************************************************************)
(* C26: if a run ends in its error handler, the set of stored grids is the *)
(* same as before the call: a failed run neither discards the previous     *)
(* grids nor leaves grids for only some of the requested variables.        *)
(***************************************************************************)
C26_FailedRunKeepsGrids ==
    [][(perform_interpolation /\ "Interpolation Error" \in messages')
          => interpolated_arrays' = interpolated_arrays]_vars

(***************************************************************************)
(* C27: opening the depth editor and pressing Save Changes without         *)
(* altering any depth leaves the output of a subsequent run identical to   *)
(* what it would have been without the edit, for every registry, those     *)
(* whose time axes have an empty intersection included.                    *)
(***************************************************************************)
C27_UnalteredSaveKeepsRunOutput ==
    [][\A w \in DOMAIN editors :
          SaveStep(w, editors[w]) =>
              GridsOfRun(depth_arrays') = GridsOfRun(depth_arrays)]_vars

(***************************************************************************)
(* C28: in every reachable state each grid that generate_plot can display  *)
(* was computed from the registry currently held: once load_files,         *)
(* process_data or Save Changes in the depth editor has replaced the       *)
(* loaded data or the registry, no grid computed from the earlier registry *)
(* remains available for plotting.                                         *)
(***************************************************************************)
C28_PlottableGridsAreCurrent ==
    \A var \in DOMAIN interpolated_arrays :
        /\ ~AbsentEverywhere(depth_arrays, var)
        /\ interpolated_arrays[var] = BuiltGrid(var)

(***************************************************************************)
(* C30: pressing Save Changes in an open depth editor always completes and *)
(* re-keys the current registry according to the entries shown, whatever   *)
(* ran between opening the editor and pressing Save (a process_data run    *)
(* that rebuilt the registry with other depths, or a Save from a second    *)
(* editor opened on the same registry).                                    *)
(***************************************************************************)
RegistryDepths == {depth_arrays[k].depth : k \in DOMAIN depth_arrays}

\* Save Changes in editor w finds every depth it looks up: no KeyError
SaveCompletes(w) == Range(editors[w]) \subseteq RegistryDepths

\* Save Changes in editor w gives every series of the registry a key
SaveRekeysAll(w) == RegistryDepths \subseteq Range(editors[w])

C30_SaveAlwaysCompletes ==
    \A w \in DOMAIN editors : SaveCompletes(w) /\ SaveRekeysAll(w)

(***************************************************************************)
(* C29: no stage runs before its predecessor has produced data, over any   *)
(* sequence of button presses: process_data with no loaded files,          *)
(* perform_interpolation with an empty registry, generate_plot with no     *)
(* stored grid (or a variable that has none) and save_plot with no figure  *)
(* each only show a warning and change no data state, so a stored grid     *)
(* exists only after a load_files that loaded at least one file, then a    *)
(* process_data, then a perform_interpolation.                             *)
(***************************************************************************)
\* the warnings of the stage guards
GuardWarnings == {"No Files", "No Data", "No Variables", "Invalid Variable", "No Plot"}

\* the data the stages hand on
data_state == <<processed_dfs, sensor_depths, depth_arrays, interpolated_arrays,
                current_figure>>

====
